---- MODULE Spec2Model ----
(***************************************************************************)
(* Model of the PandABox counter/timer controller                          *)
(* (sardana_pandabox/ctrl/PandaboxCoTiCtrl.py) together with the appliance *)
(* it drives: the command channel (pandabox.query / numquery) and the data *)
(* stream socket (data_socket.readline / readlines).                       *)
(***************************************************************************)
EXTENDS Integers, Sequences, FiniteSets, TLC

(***************************************************************************)
(* Bounds of the model.                                                    *)
(***************************************************************************)
MaxCaptured == 2      \* rows the appliance captures per arm
MaxStarts == 1        \* StartAllCT calls in one behaviour
MaxPolls == 1         \* status polls of one StartAllCT that take no time

(***************************************************************************)
(* Program constants.                                                      *)
(***************************************************************************)
MinITime == 80            \* 8e-08 s, in nanoseconds
StartTimeout == 3         \* seconds StartAllCT waits for the busy status
fixed_header_lines == 4   \* preamble lines of the data stream

NaN == -1                 \* what genfromtxt yields for a non-numeric field

Axes == {1, 2}
ChannelAxes == Axes \ {1}
ITimes == {40}                               \* nanoseconds
Repetitions == {1, 2}
Channels == <<"INENC1.VAL", "COUNTER1.OUT">>      \* appliance-internal order
ChannelSet == {Channels[i] : i \in 1..Len(Channels)}
Modes == {"Value", "Mean"}
NoChannel == "None"                               \* str(None)

(***************************************************************************)
(* Lines of the data stream.  vals is what genfromtxt makes of the line's  *)
(* whitespace-separated fields; second is the line's second ' '-separated  *)
(* field ("" when there is none).                                          *)
(***************************************************************************)
Line(k, s, v) == [kind |-> k, second |-> s, vals |-> v]
Preamble == << Line("missed", "0", <<NaN, 0>>),
               Line("process", "Scaled", <<NaN, NaN>>),
               Line("format", "ASCII", <<NaN, NaN>>),
               Line("fields", "", <<NaN>>) >>
ChanLine(c) == Line("chan", c, <<NaN, NaN, NaN>>)
BlankLine == Line("blank", "", <<>>)
EndLine == Line("end", "#", <<NaN, NaN, NaN>>)

ChanId(c) == CHOOSE i \in 1..Len(Channels) : Channels[i] = c
\* the sample of channel c in row k of the acquisition started by arm number a
Sample(a, k, c) == 100 * a + 10 * k + ChanId(c)
RowLine(a, k, hdr) ==
    Line("row", "#", [i \in 1..Len(hdr) |-> Sample(a, k, hdr[i])])

\* the enabled channels in the appliance's order
Ordered(S) == LET F[i \in 0..Len(Channels)] ==
                     IF i = 0 THEN <<>>
                     ELSE IF Channels[i] \in S THEN Append(F[i-1], Channels[i])
                          ELSE F[i-1]
              IN F[Len(Channels)]

HeaderLines(hdr) ==
    Preamble \o [i \in 1..Len(hdr) |-> ChanLine(hdr[i])] \o <<BlankLine>>

Min(a, b) == IF a < b THEN a ELSE b

(***************************************************************************)
(* Commands of the command channel: "<blk>.<fld>=<val>" (or "?"/numeric    *)
(* queries, which carry no value).                                         *)
(***************************************************************************)
Cmd(b, f, v) == [blk |-> b, fld |-> f, val |-> v]
ARM == Cmd("*PCAP", "ARM", "")
DISARM == Cmd("*PCAP", "DISARM", "")
STATUS == Cmd("*PCAP", "STATUS?", "")
CAPTURED == Cmd("*PCAP", "CAPTURED?", "")
ENABLE_ONE == Cmd("PCAP", "ENABLE", "ONE")
ENABLE_ZERO == Cmd("PCAP", "ENABLE", "ZERO")
TRIG_ZERO == Cmd("PULSE1", "TRIG", "ZERO")
TRIG_ONE == Cmd("PULSE1", "TRIG", "ONE")
HwTrig == "TTLIN1.VAL"          \* the PcapTrig property of the controller

(***************************************************************************)
(* np.genfromtxt(StringIO(data_buffer), dtype='float64'): blank lines are  *)
(* skipped, a line whose number of fields differs from the first line's    *)
(* raises ValueError, and the result is squeezed: one value gives a 0-d    *)
(* array, one row or one column a 1-d array, an empty buffer an empty 1-d  *)
(* array.  For ndim = 2 data is the sequence of rows and w their width.    *)
(***************************************************************************)
Array(n, d, wd) == [err |-> FALSE, ndim |-> n, data |-> d, w |-> wd]
genfromtxt(buf) ==
    LET rows == SelectSeq(buf, LAMBDA l : l.vals # <<>>)
        n == Len(rows)
        wd == IF n = 0 THEN 0 ELSE Len(rows[1].vals)
    IN  IF n = 0 THEN Array(1, <<>>, 0)
        ELSE IF \E i \in 1..n : Len(rows[i].vals) # wd
             THEN [err |-> TRUE, ndim |-> 0, data |-> <<>>, w |-> 0]
        ELSE IF n = 1 /\ wd = 1 THEN Array(0, rows[1].vals, 1)
        ELSE IF n = 1 THEN Array(1, rows[1].vals, wd)
        ELSE IF wd = 1 THEN Array(1, [i \in 1..n |-> rows[i].vals[1]], 1)
        ELSE Array(2, [i \in 1..n |-> rows[i].vals], wd)

\* no crop: the whole sequence
SliceAll(s, a, b) == s
\* the Python slice s[a:b] of a sequence, 0 <= a, 0 <= b
Slice(s, a, b) ==
    IF a + 1 > Min(b, Len(s)) THEN <<>> ELSE SubSeq(s, a + 1, Min(b, Len(s)))

\* np.ndarray.tolist(rows.transpose()) of an m x wd array
Transpose(rows, wd) ==
    [j \in 1..wd |-> [i \in 1..Len(rows) |-> rows[i][j]]]

(***************************************************************************)
(* self.new_data: never assigned by __init__ ("unset"), a list of columns  *)
(* ("list"), or the bare float that tolist() makes of a 0-d array          *)
(* ("float").                                                              *)
(***************************************************************************)
NewData(k, c) == [k |-> k, cols |-> c]
Unset == NewData("unset", <<>>)
NoData == NewData("list", <<>>)

(***************************************************************************)
(* The decoding part of ReadAll (lines 258-277), from the data buffer as   *)
(* left by the read: the outcome, self.new_data and self.index.            *)
(***************************************************************************)
Decoded(o, nd, ix) == [outcome |-> o, new_data |-> nd, index |-> ix]
Decode(buf, ix, ready, it, reps) ==
    LET arr == genfromtxt(buf)
        data == IF arr.ndim > 1 THEN Slice(arr.data, ix, ready + 1) ELSE arr.data
    IN  IF arr.err THEN Decoded("ValueError", NoData, ix)
        ELSE IF ~(ix <= ready) THEN Decoded("ok", NoData, ix)
        ELSE IF arr.ndim = 0 THEN Decoded("TypeError", NewData("float", <<>>), ix)
        ELSE IF arr.ndim = 1 /\ data = <<>> THEN Decoded("IndexError", NoData, ix)
        ELSE LET cols == IF arr.ndim = 1
                         THEN [j \in 1..Len(data) |-> <<data[j]>>]
                         ELSE Transpose(data, arr.w)
                 time_data == [i \in 1..Len(cols[1]) |-> it]
             IN  Decoded("ok", NewData("list", <<time_data>> \o cols),
                         IF reps # 1 THEN ix + Len(time_data) ELSE ix)

(***************************************************************************)
(* The state.                                                              *)
(***************************************************************************)
VARIABLES
    \* fields of the controller object (self.data_ready is written and read
    \* by ReadAll alone and is a local of it here)
    data_buffer,        \* lines read from the stream and kept for decoding
    header_okay_flag,
    data_end_flag,
    channels_order,     \* the capture header: channel names in stream order
    index,              \* the stream cursor
    repetitions,        \* self._repetitions
    itime,
    new_data,
    state,              \* "unset" until the first StateAll
    status,             \* the reply of the latest StateAll, as its tokens
    attributes,         \* axis -> [ChannelName, AcquisitionMode], or Absent
    synchronization,    \* self._synchronization: "SW" or "HW"
    sock_open,          \* the data socket has not been closed
    \* the caller
    pc,                 \* "idle", "polling" (inside StartAllCT) or "done"
    start,              \* the locals of the StartAllCT call in progress
    \* the appliance
    hw,                 \* the capture engine
    wire,               \* lines sent on the data stream and not yet read
    \* what the caller observes of the call that just ended, and the history
    last,               \* the call: operation, axis, outcome, result
    sent,               \* the commands it sent, in order
    reads,              \* the stream lines it consumed
    hist

ctrl == <<data_buffer, header_okay_flag, data_end_flag, channels_order, index,
          repetitions, itime, new_data, state, status, attributes,
          synchronization, sock_open>>
vars == <<ctrl, pc, start, hw, wire, last, sent, reads, hist>>

(***************************************************************************)
(* The appliance.  A command is answered at once; ack says whether the     *)
(* appliance accepts an arm command (it never accepts one while armed or   *)
(* with no channel enabled for capture).                                   *)
(* Disabling the capture gate disarms too; disarming ends the stream of    *)
(* the acquisition with the END line; arming starts it with the header.    *)
(***************************************************************************)
\* replies, as the set of tokens the reply text contains
Accepts(h, ack) == ack /\ ~h.armed /\ h.enabled # {}
ArmReply(h, ack) == IF Accepts(h, ack) THEN {"OK"} ELSE {"ERR"}
StatusReply(h) == IF h.armed THEN {"OK", "Busy"} ELSE {"OK", "Idle"}

Disarmed(h) == [h EXCEPT !.armed = FALSE]
Exec(h, c, ack) ==
    IF c = ARM THEN
        IF Accepts(h, ack)
        THEN [h EXCEPT !.armed = TRUE, !.captured = 0, !.arms = @ + 1,
                       !.hdr = Ordered(h.enabled)]
        ELSE h
    ELSE IF c = DISARM THEN Disarmed(h)
    ELSE IF c = ENABLE_ZERO THEN [Disarmed(h) EXCEPT !.enable = FALSE]
    ELSE IF c = ENABLE_ONE THEN [h EXCEPT !.enable = TRUE]
    ELSE IF c = TRIG_ONE THEN [h EXCEPT !.pulses = 1]
    ELSE IF c.blk = "PCAP" /\ c.fld = "TRIG" THEN [h EXCEPT !.trig = c.val]
    ELSE IF c.fld = "CAPTURE" THEN
        [h EXCEPT !.enabled = IF c.val = "No" THEN @ \ {c.blk} ELSE @ \cup {c.blk}]
    ELSE h

\* what the command adds to the data stream
Emits(h, c, ack) ==
    IF c = ARM /\ Accepts(h, ack) THEN HeaderLines(Ordered(h.enabled))
    ELSE IF c \in {DISARM, ENABLE_ZERO} /\ h.armed THEN <<EndLine>>
    ELSE <<>>

\* the appliance and the stream after a sequence of commands, all acknowledged
RECURSIVE ExecAll(_, _)
ExecAll(h, cs) == IF cs = <<>> THEN h ELSE ExecAll(Exec(h, Head(cs), TRUE), Tail(cs))
RECURSIVE EmitsAll(_, _)
EmitsAll(h, cs) ==
    IF cs = <<>> THEN <<>>
    ELSE Emits(h, Head(cs), TRUE) \o EmitsAll(Exec(h, Head(cs), TRUE), Tail(cs))

\* the registers of the trigger block that the trigger/gate controller
\* writes, none of them written yet
NoBlock == [ENABLE |-> "-", TRIG |-> "-", PULSES |-> "-", WIDTH |-> "-",
            STEP |-> "-"]

(***************************************************************************)
(* What the caller sees of a call.                                         *)
(***************************************************************************)
NoStatus == {"-"}       \* self.status before it is assigned
Absent == [ChannelName |-> "-", AcquisitionMode |-> "-"]

Call(o, a, out, k, v) == [op |-> o, axis |-> a, outcome |-> out, kind |-> k, val |-> v]
Returned(o, a) == Call(o, a, "ok", "none", <<>>)
Raised(o, a, e) == Call(o, a, e, "none", <<>>)
NoCall == Call("-", 0, "ok", "none", <<>>)
NoStart == [elapsed |-> 0, polls |-> 0, rejected |-> FALSE, saw_busy |-> FALSE,
            busy |-> FALSE]

Init ==
    /\ data_buffer = <<>>
    /\ header_okay_flag = FALSE
    /\ data_end_flag = FALSE
    /\ channels_order = <<>>
    /\ index = 0
    /\ repetitions = 0
    /\ itime = 0
    /\ new_data = Unset
    /\ state = "unset"
    /\ status = NoStatus
    /\ attributes = [a \in Axes |-> Absent]
    /\ synchronization = "SW"
    /\ sock_open = TRUE
    /\ pc = "idle"
    /\ start = NoStart
    /\ hw \in [armed : {FALSE}, enable : {FALSE}, captured : {0}, arms : {0},
              hdr : {<<>>}, enabled : {{Channels[1]}}, trig : {HwTrig},
              pulses : {0}, block : {NoBlock}]
    /\ wire = <<>>
    /\ last = NoCall
    /\ sent = <<>>
    /\ reads = 0
    /\ hist = [starts |-> 0, phase |-> "new", disables |-> 0,
               full_seen |-> FALSE, lock |-> -1]

\* the call has ended and the caller has its result
Return ==
    /\ pc = "done"
    /\ pc' = "idle"
    /\ last' = NoCall
    /\ sent' = <<>>
    /\ reads' = 0
    /\ start' = NoStart
    /\ UNCHANGED <<ctrl, hw, wire, hist>>

(***************************************************************************)
(* AddDevice (lines 103-109).  The table is keyed by the axis here, by     *)
(* axis-1 in the source.  The pool adds each element once, in axis order.  *)
(***************************************************************************)
AddDevice(axis) ==
    /\ pc = "idle"
    /\ hist.phase = "new"
    /\ attributes[axis] = Absent
    /\ \A b \in Axes : b < axis => attributes[b] # Absent
    /\ attributes' = [attributes EXCEPT ![axis] =
                         [ChannelName |-> NoChannel, AcquisitionMode |-> "Value"]]
    /\ index' = IF axis # 1 THEN 0 ELSE index
    /\ pc' = "done"
    /\ last' = Returned("AddDevice", axis)
    /\ sent' = <<>>
    /\ reads' = 0
    /\ hist' = [hist EXCEPT !.lock = -1]
    /\ UNCHANGED <<data_buffer, header_okay_flag, data_end_flag, channels_order,
                   repetitions, itime, new_data, state, status, synchronization,
                   sock_open, start, hw, wire>>

(***************************************************************************)
(* StateAll (lines 117-133): the state a status reply maps to.             *)
(***************************************************************************)
StateOf(reply) ==
    IF "Busy" \in reply THEN "Moving"
    ELSE IF "Idle" \in reply THEN "On"
    ELSE IF "OK" \notin reply THEN "Fault"
    ELSE "Fault"

\* the last branch (lines 128-131) formats its log line with three
\* conversions and two arguments, one of them self.status: it raises, after
\* self.state is assigned and before self.status is
Unknown(reply) == "Busy" \notin reply /\ "Idle" \notin reply /\ "OK" \in reply
StateAllOutcome(reply, st) ==
    IF ~Unknown(reply) THEN "ok"
    ELSE IF st = NoStatus THEN "AttributeError" ELSE "TypeError"
StatusAfter(reply, st) == IF Unknown(reply) THEN st ELSE reply

\* StateAll when the status query is answered by reply
StateAllWith(reply) ==
    /\ state' = StateOf(reply)
    /\ status' = StatusAfter(reply, status)
    /\ pc' = "done"
    \* kept with the call: the reply the status query got
    /\ last' = Call("StateAll", 0, StateAllOutcome(reply, status), "reply", <<reply>>)
    /\ sent' = <<STATUS>>
    /\ reads' = 0
    /\ UNCHANGED <<data_buffer, header_okay_flag, data_end_flag, channels_order,
                   index, repetitions, itime, new_data, attributes,
                   synchronization, sock_open, start, hw, wire, hist>>

StateAll ==
    /\ pc = "idle"
    /\ StateAllWith(StatusReply(hw))

\* StateAll on an appliance that answers the status query with any text
StatusTokens == {"OK", "Busy", "Idle"}
StateAllReply(reply) ==
    /\ pc = "idle"
    /\ StateAllWith(reply)

\* StateAll when the command channel is unreachable and the query raises
StateAllDown ==
    /\ pc = "idle"
    /\ pc' = "done"
    /\ last' = Raised("StateAll", 0, "socket.error")
    /\ sent' = <<STATUS>>
    /\ reads' = 0
    /\ UNCHANGED <<ctrl, start, hw, wire, hist>>

(***************************************************************************)
(* SetCtrlPar (lines 385-386): the pool sets the synchronization.          *)
(***************************************************************************)
SetCtrlPar(value) ==
    /\ pc = "idle"
    /\ hist.phase = "new"
    /\ synchronization # value
    /\ synchronization' = value
    /\ pc' = "done"
    /\ last' = Returned("SetCtrlPar", 0)
    /\ sent' = <<>>
    /\ reads' = 0
    /\ hist' = [hist EXCEPT !.lock = -1]
    /\ UNCHANGED <<data_buffer, header_okay_flag, data_end_flag, channels_order,
                   index, repetitions, itime, new_data, state, status, attributes,
                   sock_open, start, hw, wire>>

(***************************************************************************)
(* LoadOne (lines 140-188).                                                *)
(***************************************************************************)
Width(value) == IF value < MinITime THEN MinITime ELSE value
LoadCommands(value, synch) ==
    LET trig == IF synch = "SW" THEN "PULSE1.OUT" ELSE HwTrig
    IN  << Cmd("PULSE1", "WIDTH.UNITS", "s"),
           Cmd("PULSE1", "WIDTH", ToString(Width(value))),
           Cmd("PCAP", "TRIG_EDGE", "Falling") >>
        \o (IF synch = "SW" THEN <<Cmd("PULSE1", "PULSES", "1")>> ELSE <<>>)
        \o << Cmd("PCAP", "GATE", trig), Cmd("PCAP", "TRIG", trig) >>

\* no axis check
LoadNeverRejected(axis) == FALSE
\* the axis check (lines 143-144) and the reset (lines 147, 186-188)
LoadRejected(axis) == axis # 1
\* a reset that keeps the cursor and the buffer
LoadResetFlagsOnly == [index |-> index, header_okay_flag |-> FALSE,
                       data_end_flag |-> FALSE, data_buffer |-> data_buffer]
LoadReset == [index |-> 0, header_okay_flag |-> FALSE, data_end_flag |-> FALSE,
              data_buffer |-> <<>>]

LoadOne(axis, value, reps) ==
    /\ pc = "idle"
    /\ attributes[axis] # Absent
    /\ pc' = "done"
    /\ reads' = 0
    /\ IF LoadRejected(axis)
       THEN /\ last' = Raised("LoadOne", axis, "Exception")
            /\ sent' = <<>>
            /\ hist' = [hist EXCEPT !.lock = -1]
            /\ UNCHANGED <<ctrl, hw, wire>>
       ELSE /\ itime' = value
            /\ index' = LoadReset.index
            /\ sent' = LoadCommands(value, synchronization)
            /\ hw' = ExecAll(hw, sent')
            /\ wire' = wire \o EmitsAll(hw, sent')
            /\ repetitions' = IF synchronization = "SW" THEN 1 ELSE reps
            /\ header_okay_flag' = LoadReset.header_okay_flag
            /\ data_end_flag' = LoadReset.data_end_flag
            /\ data_buffer' = LoadReset.data_buffer
            /\ last' = Returned("LoadOne", axis)
            /\ hist' = [hist EXCEPT !.phase = "loaded", !.disables = 0,
                                    !.full_seen = FALSE, !.lock = 0]
            /\ UNCHANGED <<channels_order, new_data, state, status, attributes,
                           synchronization, sock_open>>
    /\ UNCHANGED start

(***************************************************************************)
(* PreStartOneCT (lines 190-194): called by the pool for the axes of an    *)
(* acquisition between its LoadOne and its StartAllCT.                     *)
(***************************************************************************)
PreStartOneCT(axis) ==
    /\ pc = "idle"
    /\ hist.phase = "loaded"
    /\ attributes[axis] # Absent
    /\ index' = IF axis # 1 THEN 0 ELSE index
    /\ pc' = "done"
    /\ last' = Returned("PreStartOneCT", axis)
    /\ sent' = <<>>
    /\ reads' = 0
    /\ UNCHANGED <<data_buffer, header_okay_flag, data_end_flag, channels_order,
                   repetitions, itime, new_data, state, status, attributes,
                   synchronization, sock_open, start, hw, wire, hist>>

(***************************************************************************)
(* The appliance captures a row: on the pulse of PULSE1 when the trigger   *)
(* is routed to PULSE1.OUT, on an external trigger otherwise.              *)
(***************************************************************************)
CanCapture(h) ==
    /\ h.armed
    /\ h.enable
    /\ h.captured < MaxCaptured
    /\ h.trig = "PULSE1.OUT" => h.pulses > 0
Captured(h) == [h EXCEPT !.captured = @ + 1,
                         !.pulses = IF h.trig = "PULSE1.OUT" THEN 0 ELSE @]
CapturedLine(h) == RowLine(h.arms, h.captured + 1, h.hdr)

(***************************************************************************)
(* StartAllCT (lines 196-228), called once per LoadOne.  The commands up   *)
(* to the first StateAll are one step; every turn of the polling loop is a *)
(* step of its own, so that the appliance can progress between two polls.  *)
(***************************************************************************)
\* no recovery: the arm command alone
ArmCommandsOnce(h, ack1, ack2) == <<ARM>>
\* the arm commands (lines 202-206), given the appliance's two answers
ArmCommands(h, ack1, ack2) ==
    IF "OK" \notin ArmReply(h, ack1) THEN <<ARM, DISARM, ARM>> ELSE <<ARM>>
\* the trigger pulse before the gate is enabled
GoCommandsPulseFirst(synch) ==
    (IF synch = "SW" THEN <<TRIG_ZERO, TRIG_ONE>> ELSE <<>>) \o <<ENABLE_ONE>>
\* the commands that follow them (lines 209-215)
GoCommands(synch) ==
    <<ENABLE_ONE>> \o (IF synch = "SW" THEN <<TRIG_ZERO, TRIG_ONE>> ELSE <<>>)

\* the appliance after the arm commands, and what they add to the stream
Armed(h, ack1, ack2) ==
    IF "OK" \notin ArmReply(h, ack1)
    THEN Exec(Exec(Exec(h, ARM, ack1), DISARM, TRUE), ARM, ack2)
    ELSE Exec(h, ARM, ack1)
ArmEmits(h, ack1, ack2) ==
    IF "OK" \notin ArmReply(h, ack1)
    THEN Emits(h, ARM, ack1) \o Emits(Exec(h, ARM, ack1), DISARM, TRUE)
         \o Emits(Exec(Exec(h, ARM, ack1), DISARM, TRUE), ARM, ack2)
    ELSE Emits(h, ARM, ack1)

\* fast: the acquisition runs and ends by itself (the row is captured and
\* the appliance is idle again) before the status query of line 222
StartAll(ack1, ack2, fast) ==
    /\ pc = "idle"
    /\ hist.phase = "loaded"
    /\ ack1 => ack2      \* the second answer matters only after a rejection
    /\ LET h1 == Armed(hw, ack1, ack2)
           go == GoCommands(synchronization)
           h2 == ExecAll(h1, go)
       IN  /\ fast => CanCapture(h2)
           /\ hw' = IF fast THEN Disarmed(Captured(h2)) ELSE h2
           /\ wire' = wire \o ArmEmits(hw, ack1, ack2) \o EmitsAll(h1, go)
                       \o (IF fast THEN <<CapturedLine(h2), EndLine>> ELSE <<>>)
           /\ sent' = ArmCommands(hw, ack1, ack2) \o go \o <<STATUS>>
           /\ start' = [elapsed |-> 0, polls |-> 0,
                        rejected |-> "OK" \notin ArmReply(hw, ack1),
                        saw_busy |-> "Busy" \in StatusReply(hw'),
                        busy |-> h2.armed]
    /\ hist' = [hist EXCEPT !.starts = @ + 1, !.phase = "started"]
    /\ state' = StateOf(StatusReply(hw'))
    /\ status' = StatusAfter(StatusReply(hw'), status)
    /\ pc' = "polling"
    /\ last' = Call("StartAllCT", 0, "running", "none", <<>>)
    /\ reads' = 0
    /\ UNCHANGED <<data_buffer, header_okay_flag, data_end_flag, channels_order,
                   index, repetitions, itime, new_data, attributes,
                   synchronization, sock_open>>

StartAllCT(ack1, ack2) ==
    /\ hist.starts < MaxStarts
    /\ StartAll(ack1, ack2, FALSE)
StartAllCT_Fast(ack1, ack2) ==
    /\ hist.starts < MaxStarts
    /\ StartAll(ack1, ack2, TRUE)
\* the StartAllCT of one more acquisition
StartAllCT_Again(ack1, ack2) ==
    /\ hist.starts = MaxStarts
    /\ StartAll(ack1, ack2, FALSE)

\* no bound on the wait
NeverTimedOut(elapsed) == FALSE
\* the test of line 225
TimedOut(elapsed) == elapsed > StartTimeout

\* one turn of the loop of lines 224-228; the status query takes dt seconds
StartAllCT_Poll(dt) ==
    /\ pc = "polling"
    /\ IF state = "Moving"
       THEN /\ dt = 0
            /\ pc' = "done"
            /\ last' = Call("StartAllCT", 0, "ok", "bool", <<1>>)
            /\ UNCHANGED <<state, status, start, sent>>
       ELSE IF TimedOut(start.elapsed)
       THEN /\ dt = 0
            /\ pc' = "done"
            /\ last' = Raised("StartAllCT", 0, "Exception")
            /\ UNCHANGED <<state, status, start, sent>>
       ELSE /\ dt = 0 => start.polls < MaxPolls
            /\ state' = StateOf(StatusReply(hw))
            /\ status' = StatusAfter(StatusReply(hw), status)
            /\ sent' = Append(sent, STATUS)
            /\ start' = [start EXCEPT !.elapsed = @ + dt,
                            !.polls = IF dt = 0 THEN @ + 1 ELSE @,
                            !.saw_busy = @ \/ "Busy" \in StatusReply(hw)]
            /\ UNCHANGED <<pc, last>>
    /\ UNCHANGED <<data_buffer, header_okay_flag, data_end_flag, channels_order,
                   index, repetitions, itime, new_data, attributes,
                   synchronization, sock_open, hw, wire, reads, hist>>

(***************************************************************************)
(* AbortOne and StopOne (lines 303-310).                                   *)
(***************************************************************************)
AbortCommands == <<DISARM>>
\* the two commands in the other order
StopCommandsReversed == <<DISARM, ENABLE_ZERO>>
StopCommands == <<ENABLE_ZERO, DISARM>>

Halt(op, axis, cmds) ==
    /\ pc = "idle"
    /\ sent' = cmds
    /\ hw' = ExecAll(hw, cmds)
    /\ wire' = wire \o EmitsAll(hw, cmds)
    /\ pc' = "done"
    /\ last' = Returned(op, axis)
    /\ reads' = 0
    /\ hist' = [hist EXCEPT !.lock = -1,
                   !.phase = IF @ = "started" THEN "halted" ELSE @]
    /\ UNCHANGED <<ctrl, start>>

AbortOne(axis) ==
    /\ attributes[axis] # Absent
    /\ Halt("AbortOne", axis, AbortCommands)
StopOne(axis) ==
    /\ attributes[axis] # Absent
    /\ Halt("StopOne", axis, StopCommands)

(***************************************************************************)
(* The appliance captures a row (the action).                              *)
(***************************************************************************)
Capture ==
    /\ pc # "done"
    /\ CanCapture(hw)
    /\ hw' = Captured(hw)
    /\ wire' = Append(wire, CapturedLine(hw))
    /\ UNCHANGED <<ctrl, pc, start, last, sent, reads, hist>>

(***************************************************************************)
(* _ParseHeader (lines 312-342), on a stream holding the lines w, with n   *)
(* channels enabled: the header flag, the capture header, the stream left, *)
(* the outcome and the number of lines consumed.  readlines() fails with a *)
(* socket error when the socket is closed or the lines do not arrive in    *)
(* time; the lines it had read by then are lost.                           *)
(***************************************************************************)
Parsed(f, c, w, o, r) ==
    [flag |-> f, chans |-> c, wire |-> w, outcome |-> o, reads |-> r]
ParseHeader(flag, chans, w, open, n) ==
    LET num == fixed_header_lines + n + 1
    IN  IF flag THEN Parsed(flag, chans, w, "ok", 0)
        ELSE IF ~open THEN Parsed(FALSE, <<>>, w, "ok", 0)
        ELSE IF Len(w) < num THEN Parsed(FALSE, <<>>, <<>>, "ok", Len(w))
        ELSE LET lines == SubSeq(w, 1, num)
                 left == SubSeq(w, num + 1, Len(w))
                 okay == lines[fixed_header_lines].kind = "fields"
                 list == SubSeq(lines, fixed_header_lines + 1, fixed_header_lines + n)
                 bad == {i \in 1..n : list[i].second = ""}
                 stop == IF bad = {} THEN n
                         ELSE (CHOOSE i \in bad : \A j \in bad : i <= j) - 1
                 names == [i \in 1..stop |-> list[i].second]
             IN  Parsed(okay, names, left,
                        IF bad = {} THEN "ok" ELSE "IndexError", num)

(***************************************************************************)
(* ReadAll (lines 230-277).                                                *)
(***************************************************************************)
\* the command of lines 243-245
FinishCommands(ready, reps) == IF ready = reps THEN <<ENABLE_ZERO>> ELSE <<>>
\* which branch a captured-row count takes (lines 238, 242)
Branch(ready, reps) ==
    IF ready = 0 THEN "header" ELSE IF ready <= reps THEN "data" ELSE "none"

\* no test of the end flag: a line is read in every call
ReadPastEnd(buf, endf, w, open) ==
    IF ~open \/ w = <<>>
         THEN [buf |-> buf, endf |-> endf, wire |-> w, open |-> FALSE, reads |-> 0]
    ELSE IF Head(w).kind # "end"
         THEN [buf |-> Append(buf, Head(w)), endf |-> endf, wire |-> Tail(w),
               open |-> open, reads |-> 1]
    ELSE [buf |-> buf, endf |-> TRUE, wire |-> Tail(w), open |-> open, reads |-> 1]
\* two readline() calls in one ReadAll
ReadTwice(buf, endf, w, open) ==
    IF endf THEN [buf |-> buf, endf |-> endf, wire |-> w, open |-> open, reads |-> 0]
    ELSE LET r1 == ReadPastEnd(buf, endf, w, open)
             r2 == ReadPastEnd(r1.buf, r1.endf, r1.wire, r1.open)
         IN  IF r1.endf \/ r1.wire = <<>> THEN r1
             ELSE [r2 EXCEPT !.reads = r1.reads + r2.reads]
\* the read of lines 246-256 on the stream w: buffer, end flag, stream,
\* socket and lines consumed
Read(buf, endf, w, open) ==
    IF endf THEN [buf |-> buf, endf |-> endf, wire |-> w, open |-> open, reads |-> 0]
    ELSE IF ~open \/ w = <<>>
         THEN [buf |-> buf, endf |-> endf, wire |-> w, open |-> FALSE, reads |-> 0]
    ELSE IF Head(w).kind # "end"
         THEN [buf |-> Append(buf, Head(w)), endf |-> endf, wire |-> Tail(w),
               open |-> open, reads |-> 1]
    ELSE [buf |-> buf, endf |-> TRUE, wire |-> Tail(w), open |-> open, reads |-> 1]

\* the k-th of successive polls that each find one more captured row and
\* read that row: the count after this poll (-1 once the run is broken)
LockStep(lock, ready, rd) ==
    IF lock < 0 THEN -1
    ELSE IF ready = 0 THEN (IF lock = 0 THEN 0 ELSE -1)
    ELSE IF /\ ready = lock + 1
            /\ rd.reads = 1
            /\ rd.buf # <<>>
            /\ rd.buf[Len(rd.buf)] = RowLine(hw.arms, ready, hw.hdr)
            /\ Len(rd.buf) = ready
         THEN ready
    ELSE -1

\* arrives: the appliance captures a row while readline() waits for a line
ReadAll(arrives) ==
    /\ pc = "idle"
    /\ hist.phase \in {"started", "halted"}
    /\ pc' = "done"
    /\ arrives => Branch(hw.captured, repetitions) = "data"
    /\ LET ready == hw.captured
           br == Branch(ready, repetitions)
       IN  IF br = "header" THEN
               LET p == ParseHeader(header_okay_flag, channels_order, wire,
                                    sock_open, Cardinality(hw.enabled))
               IN  /\ header_okay_flag' = p.flag
                   /\ channels_order' = p.chans
                   /\ wire' = p.wire
                   /\ reads' = p.reads
                   /\ new_data' = NoData
                   /\ last' = Raised("ReadAll", 0, p.outcome)
                   /\ sent' = <<CAPTURED>>
                   /\ hist' = [hist EXCEPT !.full_seen = @ \/ ready >= repetitions,
                                  !.lock = LockStep(@, 0, <<>>)]
                   /\ UNCHANGED <<data_buffer, data_end_flag, index, sock_open, hw>>
           ELSE IF br = "data" THEN
               LET fin == FinishCommands(ready, repetitions)
                   h1 == ExecAll(hw, fin)
                   w1 == wire \o EmitsAll(hw, fin)
                   waits == ~data_end_flag /\ sock_open /\ w1 = <<>>
                   rd == Read(data_buffer, data_end_flag,
                              IF arrives THEN <<CapturedLine(h1)>> ELSE w1,
                              sock_open)
                   d == Decode(rd.buf, index, ready, itime, repetitions)
               IN  /\ arrives => waits /\ CanCapture(h1)
                   /\ hw' = IF arrives THEN Captured(h1) ELSE h1
                   /\ sent' = <<CAPTURED>> \o fin
                   /\ data_buffer' = rd.buf
                   /\ data_end_flag' = rd.endf
                   /\ wire' = rd.wire
                   /\ sock_open' = rd.open
                   /\ reads' = rd.reads
                   /\ new_data' = d.new_data
                   /\ index' = d.index
                   /\ last' = Raised("ReadAll", 0, d.outcome)
                   /\ hist' = [hist EXCEPT
                                  !.full_seen = @ \/ ready >= repetitions,
                                  !.disables = Min(@ + Len(fin), 2),
                                  !.lock = LockStep(@, ready, rd)]
                   /\ UNCHANGED <<header_okay_flag, channels_order>>
           ELSE
               /\ new_data' = NoData
               /\ last' = Returned("ReadAll", 0)
               /\ sent' = <<CAPTURED>>
               /\ reads' = 0
               /\ hist' = [hist EXCEPT !.full_seen = @ \/ ready >= repetitions,
                              !.lock = -1]
               /\ UNCHANGED <<data_buffer, header_okay_flag, data_end_flag,
                              channels_order, index, sock_open, hw, wire>>
    /\ UNCHANGED <<repetitions, itime, state, status, attributes, synchronization,
                   start>>

(***************************************************************************)
(* ReadOne (lines 280-301): what the call returns or raises in the current *)
(* state.                                                                  *)
(***************************************************************************)
Range(q) == {q[i] : i \in 1..Len(q)}
\* list.index(x) + 1
Position(q, x) == CHOOSE i \in 1..Len(q) : q[i] = x /\ \A j \in 1..(i-1) : q[j] # x

\* no membership test: a channel that is not in the header reads the timer column
ChannelIndexOrTimer(axis) ==
    IF axis = 1 \/ attributes[axis].ChannelName \notin Range(channels_order) THEN 0
    ELSE Position(channels_order, attributes[axis].ChannelName)
\* channel_index (lines 286-293), -1 where the source raises ValueError
ChannelIndex(axis) ==
    IF axis = 1 THEN 0
    ELSE IF attributes[axis].ChannelName \notin Range(channels_order) THEN -1
    ELSE Position(channels_order, attributes[axis].ChannelName)

ReadOneResult(axis) ==
    IF new_data.k = "unset" THEN Raised("ReadOne", axis, "AttributeError")
    ELSE IF new_data.k = "float" THEN Raised("ReadOne", axis, "TypeError")
    ELSE IF Len(new_data.cols) = 0 THEN Call("ReadOne", axis, "ok", "none", <<>>)
    ELSE IF ChannelIndex(axis) < 0 THEN Raised("ReadOne", axis, "ValueError")
    ELSE LET col == ChannelIndex(axis) + 1
         IN  IF col > Len(new_data.cols) THEN Raised("ReadOne", axis, "IndexError")
             ELSE IF synchronization = "SW"
                  THEN IF new_data.cols[col] = <<>>
                       THEN Raised("ReadOne", axis, "IndexError")
                       ELSE Call("ReadOne", axis, "ok", "scalar",
                                 <<new_data.cols[col][1]>>)
             ELSE Call("ReadOne", axis, "ok", "seq", new_data.cols[col])

ReadOne(axis) ==
    /\ pc = "idle"
    /\ attributes[axis] # Absent
    /\ pc' = "done"
    /\ last' = ReadOneResult(axis)
    /\ sent' = <<>>
    /\ reads' = 0
    /\ UNCHANGED <<ctrl, start, hw, wire, hist>>

(***************************************************************************)
(* SetExtraAttributePar (lines 357-378).                                   *)
(***************************************************************************)
AttrValues == ChannelSet \cup {"Bogus"}

SetExtraAttributePar(axis, name, value) ==
    /\ pc = "idle"
    /\ hist.phase = "new"
    /\ attributes[axis] # Absent
    /\ pc' = "done"
    /\ reads' = 0
    /\ hist' = [hist EXCEPT !.lock = -1]
    /\ IF axis = 1 THEN
           /\ last' = Raised("SetExtraAttributePar", axis, "ValueError")
           /\ sent' = <<>>
           /\ UNCHANGED <<attributes, hw>>
       ELSE IF \/ name = "AcquisitionMode" /\ value \notin Modes
               \/ name = "ChannelName" /\ value \notin ChannelSet THEN
           /\ last' = Raised("SetExtraAttributePar", axis, "Exception")
           /\ sent' = <<>>
           /\ UNCHANGED <<attributes, hw>>
       ELSE
           LET old == attributes[axis].ChannelName
               off == IF old # NoChannel THEN <<Cmd(old, "CAPTURE", "No")>> ELSE <<>>
               new == [attributes[axis] EXCEPT ![name] = value]
           IN  /\ attributes' = [attributes EXCEPT ![axis] = new]
               /\ IF new.ChannelName = NoChannel
                  THEN \* None + '.CAPTURE=...' raises
                       /\ sent' = off
                       /\ last' = Raised("SetExtraAttributePar", axis, "TypeError")
                  ELSE /\ sent' = Append(off, Cmd(new.ChannelName, "CAPTURE",
                                                  new.AcquisitionMode))
                       /\ last' = Returned("SetExtraAttributePar", axis)
               /\ hw' = ExecAll(hw, sent')
    /\ UNCHANGED <<data_buffer, header_okay_flag, data_end_flag, channels_order,
                   index, repetitions, itime, new_data, state, status,
                   synchronization, sock_open, start, wire>>

Next ==
    \/ \E axis \in Axes : AddDevice(axis)
    \/ \E value \in {"SW", "HW"} : SetCtrlPar(value)
    \/ \E axis \in Axes, name \in {"ChannelName"}, value \in AttrValues :
          SetExtraAttributePar(axis, name, value)
    \/ StateAll
    \/ \E axis \in Axes, value \in ITimes, reps \in Repetitions :
          LoadOne(axis, value, reps)
    \/ \E axis \in Axes : PreStartOneCT(axis)
    \/ \E ack1, ack2 \in BOOLEAN : StartAllCT(ack1, ack2)
    \/ \E dt \in {0, 1} : StartAllCT_Poll(dt)
    \/ \E arrives \in BOOLEAN : ReadAll(arrives)
    \/ \E axis \in Axes : ReadOne(axis)
    \/ \E axis \in {1} : AbortOne(axis)
    \/ \E axis \in {1} : StopOne(axis)
    \/ Capture
    \/ Return

Spec == Init /\ [][Next]_vars

(***************************************************************************)
(* Properties.                                                             *)
(***************************************************************************)
\* the added channel axes whose channel is, or is not, in the capture header
BoundAxes ==
    {a \in ChannelAxes : /\ attributes[a] # Absent
                         /\ attributes[a].ChannelName \in Range(channels_order)}
UnboundAxes ==
    {a \in ChannelAxes : /\ attributes[a] # Absent
                         /\ attributes[a].ChannelName \notin Range(channels_order)}
NoDataResult(a) == Call("ReadOne", a, "ok", "none", <<>>)

\* k successive polls since the Load each found one more captured row and
\* read that row, under hardware synchronization with several repetitions
\* and a capture header of two or more channels
C1_Polled(k) ==
    /\ hist.lock = k
    /\ synchronization = "HW"
    /\ repetitions > 1
    /\ Len(channels_order) >= 2

\* C1, as stated, for capture headers of two or more channels: after the k-th
\* of N successive polls that each find and read one more row, ReadOne for a
\* bound channel returns the k samples of the channel in arrival order and
\* the stream cursor is k.
C1_Original ==
    \A k \in 1..MaxCaptured : C1_Polled(k) =>
        /\ index = k
        /\ \A a \in BoundAxes :
              ReadOneResult(a) =
                  Call("ReadOne", a, "ok", "seq",
                       [j \in 1..k |-> Sample(hw.arms, j, attributes[a].ChannelName)])

\* C1, amended: after the k-th such poll ReadOne for a bound channel returns
\* the one-element sequence holding the channel's k-th sample (the row that
\* is new since the previous poll), and the stream cursor is k.
C1_Amended ==
    \A k \in 1..MaxCaptured : C1_Polled(k) =>
        /\ index = k
        /\ \A a \in BoundAxes :
              ReadOneResult(a) =
                  Call("ReadOne", a, "ok", "seq",
                       <<Sample(hw.arms, k, attributes[a].ChannelName)>>)

\* ReadOne has returned the second sample alone after the second such poll
C1_Witness ==
    /\ C1_Polled(2)
    /\ pc = "done"
    /\ last.op = "ReadOne"
    /\ last.axis \in BoundAxes
    /\ last.val = <<Sample(hw.arms, 2, attributes[last.axis].ChannelName)>>

\* C2: under software synchronization, after a Load, a StartAllCT and the
\* ReadAll polls that parse the header and read the first row, ReadOne(1)
\* returns the integration time given to Load as a scalar, and ReadOne for an
\* axis bound to a channel of the stream's header returns the first row's
\* sample of that channel as a scalar.
C2_Claim ==
    (synchronization = "SW" /\ hist.lock = 1) =>
        /\ ReadOneResult(1) = Call("ReadOne", 1, "ok", "scalar", <<itime>>)
        /\ \A a \in ChannelAxes :
              (attributes[a] # Absent /\ attributes[a].ChannelName \in Range(hw.hdr)) =>
                  ReadOneResult(a) =
                      Call("ReadOne", a, "ok", "scalar",
                           <<Sample(hw.arms, 1, attributes[a].ChannelName)>>)

C4_Claim ==
    \A a \in ChannelAxes :
        (attributes[a] # Absent /\ hist.phase = "new") =>
            ReadOneResult(a) = NoDataResult(a)

\* the commands of a StartAllCT after its arm commands, up to the first status poll
C5_Rest ==
    <<ENABLE_ONE>>
    \o (IF synchronization = "SW" THEN <<TRIG_ZERO, TRIG_ONE>> ELSE <<>>)
    \o <<STATUS>>
\* the controller fields other than the state
C5_Fields ==
    <<data_buffer, header_okay_flag, data_end_flag, channels_order, index,
      repetitions, itime, new_data, attributes, synchronization, sock_open>>
C5_Step ==
    /\ (pc = "idle" /\ pc' = "polling") =>
          /\ ~start'.rejected =>
                /\ sent' = <<ARM>> \o C5_Rest
                /\ state' = "Moving"
                /\ UNCHANGED C5_Fields
          /\ (start'.rejected /\ hw'.armed) =>
                /\ sent' = <<ARM, DISARM, ARM>> \o C5_Rest
                /\ state' = "Moving"
                /\ UNCHANGED C5_Fields
    /\ (pc = "polling" /\ pc' = "done" /\ hw.armed) =>
          /\ last' = Call("StartAllCT", 0, "ok", "bool", <<1>>)
          /\ sent' = sent
          /\ UNCHANGED <<state, C5_Fields>>

\* C5: a StartAllCT whose first arm is rejected and whose re-arm is
\* acknowledged leaves the controller in the same state (Moving, every other
\* field untouched) and sends the same commands after the arm (enable gate,
\* trigger pulse under software synchronization, one status poll) as a
\* StartAllCT whose first arm is acknowledged; its commands are those of the
\* latter with a disarm and an arm inserted after the first arm.
C5_SameStart == [][C5_Step]_vars

\* a StartAllCT has returned after a rejected arm and an acknowledged re-arm
C5_Witness ==
    /\ pc = "done"
    /\ last = Call("StartAllCT", 0, "ok", "bool", <<1>>)
    /\ start.rejected
    /\ hw.armed
    /\ sent = <<ARM, DISARM, ARM>> \o C5_Rest

\* the specification with StartAllCT's loop always taking its next turn
FairSpec == Spec /\ WF_vars(\E dt \in {0, 1} : StartAllCT_Poll(dt))

C6_Step ==
    /\ (pc' = "polling" \/ (pc = "polling" /\ pc' = "done")) =>
          /\ reads' = 0
          /\ Len(wire') >= Len(wire)
          /\ SubSeq(wire', 1, Len(wire)) = wire
          /\ UNCHANGED <<data_buffer, header_okay_flag, channels_order, index>>
    /\ pc' = "polling" => start'.elapsed <= StartTimeout + 1
    /\ (pc = "polling" /\ pc' = "done" /\ ~start.saw_busy) =>
          last' = Raised("StartAllCT", 0, "Exception")

\* C6: a StartAllCT none of whose status polls observes the busy status ends
\* with a failure: it does not return success, it stops polling once more
\* than 3 seconds have passed, and it always ends; during a StartAllCT
\* nothing is read from the data stream, and the data buffer, the header
\* flag, the capture header and the stream cursor do not change.
C6_Timeout == [][C6_Step]_vars /\ ((pc = "polling") ~> (pc = "done"))

\* a StartAllCT has failed on the timeout with lines waiting in the stream
C6_Witness ==
    /\ pc = "done"
    /\ last = Raised("StartAllCT", 0, "Exception")
    /\ ~start.saw_busy
    /\ start.elapsed > StartTimeout

\* the fields neither AbortOne nor StopOne may change
C7_Fields ==
    <<index, data_buffer, channels_order, header_okay_flag, data_end_flag, new_data>>
C7_Step ==
    /\ (pc = "idle" /\ last'.op = "AbortOne") =>
          /\ sent' = <<DISARM>>
          /\ last'.outcome = "ok"
          /\ UNCHANGED C7_Fields
    /\ (pc = "idle" /\ last'.op = "StopOne") =>
          /\ sent' = <<ENABLE_ZERO, DISARM>>
          /\ last'.outcome = "ok"
          /\ UNCHANGED C7_Fields

\* C7: AbortOne, in any state, sends exactly one disarm command and raises
\* nothing; StopOne sends exactly the disable-capture command followed by the
\* disarm command; neither changes the stream cursor, the data buffer, the
\* capture header, the header flag, the end flag or the decoded data.
C7_Halt == [][C7_Step]_vars

\* AbortOne has returned on an idle controller and a disarmed appliance,
\* and StopOne is possible too
C7_Witness ==
    /\ pc = "done"
    /\ last = Returned("AbortOne", 1)
    /\ sent = <<DISARM>>
    /\ state = "On"
    /\ ~hw.armed
    /\ data_buffer # <<>>

C8_Step ==
    (pc = "idle" /\ last'.op = "LoadOne" /\ last'.axis # 1) =>
        /\ last'.outcome = "Exception"
        /\ sent' = <<>>
        /\ hw' = hw
        /\ UNCHANGED <<itime, repetitions, index, data_buffer, header_okay_flag,
                       data_end_flag>>

\* C8: LoadOne on an axis other than 1 raises before any effect: it sends no
\* command, and the integration time, the repeat count, the stream cursor,
\* the data buffer, the header flag and the end flag keep their values.
C8_Rejected == [][C8_Step]_vars

\* LoadOne has been rejected in the middle of an acquisition
C8_Witness ==
    /\ pc = "done"
    /\ last = Raised("LoadOne", 2, "Exception")
    /\ data_buffer # <<>>
    /\ index > 0
    /\ header_okay_flag

\* C9: after every successful LoadOne on axis 1 the stream cursor is 0, the
\* data buffer is empty, the header flag is false and the end flag is false.
C9_Reset ==
    (pc = "done" /\ last = Returned("LoadOne", 1)) =>
        /\ index = 0
        /\ data_buffer = <<>>
        /\ ~header_okay_flag
        /\ ~data_end_flag

\* LoadOne has succeeded after an acquisition that delivered rows
C9_Witness ==
    /\ pc = "done"
    /\ last = Returned("LoadOne", 1)
    /\ hist.starts >= 1
    /\ new_data.k = "list"
    /\ new_data.cols # <<>>

\* C10: between a Load and the next, ReadAll issues the disable-capture
\* command exactly once, in the first ReadAll that observes a captured-row
\* count >= repetitions, and not again.
C10_Claim ==
    IF hist.full_seen THEN hist.disables = 1 ELSE hist.disables = 0

\* the specification with acquisitions that may end before StartAllCT's
\* first status query
NextFast ==
    \/ Next
    \/ \E ack1, ack2 \in BOOLEAN : StartAllCT_Fast(ack1, ack2)
SpecFast == Init /\ [][NextFast]_vars

\* C11: StartAllCT raises the start-timeout failure only when the appliance
\* never became busy after the start commands; an acquisition that became
\* busy and ended before a status poll sampled it is not reported as a
\* failure.
C11_Claim ==
    (pc = "done" /\ last = Raised("StartAllCT", 0, "Exception")) => ~start.busy

\* the specification with an appliance that may answer the status query
\* with any text, and a command channel that may be unreachable
NextStatus ==
    \/ Next
    \/ \E reply \in SUBSET StatusTokens : StateAllReply(reply)
    \/ StateAllDown
SpecStatus == Init /\ [][NextStatus]_vars

\* C12: StateAll maps every status reply to one state: Moving if it holds the
\* busy token, otherwise On if it holds the idle token, otherwise Fault; and
\* the status text StateOne reports is the raw reply of the latest StateAll.
C12_Claim ==
    (pc = "done" /\ last.op = "StateAll" /\ last.kind = "reply") =>
        LET reply == last.val[1]
        IN  /\ state = IF "Busy" \in reply THEN "Moving"
                       ELSE IF "Idle" \in reply THEN "On" ELSE "Fault"
            /\ status = reply

\* C13: after AbortOne or StopOne returns from a non-idle state, the state
\* reported to the caller is idle (On).
C13_Claim ==
    [][(pc = "idle" /\ last'.op \in {"AbortOne", "StopOne"} /\ state = "Moving")
          => state' = "On"]_vars

\* C14: the commands of every StartAllCT are, in this order: the arm (alone,
\* or followed by a disarm and a second arm), the enable of the capture
\* gate, under software synchronization only the trigger set to ZERO and
\* then to ONE, once, and after all of these the status polls.
C14_Order ==
    last.op = "StartAllCT" =>
        \E arm \in {<<ARM>>, <<ARM, DISARM, ARM>>},
           n \in 1..(MaxPolls + StartTimeout + 3) :
            sent = arm \o <<ENABLE_ONE>>
                   \o (IF synchronization = "SW" THEN <<TRIG_ZERO, TRIG_ONE>>
                       ELSE <<>>)
                   \o [i \in 1..n |-> STATUS]

\* a StartAllCT under hardware synchronization has ended after several
\* status polls and no trigger command
C14_Witness ==
    /\ pc = "done"
    /\ last.op = "StartAllCT"
    /\ synchronization = "HW"
    /\ Len(sent) > 4
    /\ TRIG_ONE \notin Range(sent)

\* C15: the integration time of an acquisition is the time passed to Load
\* raised to the 80 ns minimum: the pulse width sent to the appliance and the
\* values of the timer column (the first decoded column) both equal it.
C15_Claim ==
    LET clamped == IF itime < MinITime THEN MinITime ELSE itime
    IN  /\ (pc = "done" /\ last = Returned("LoadOne", 1)) =>
              Cmd("PULSE1", "WIDTH", ToString(clamped)) \in Range(sent)
        /\ (new_data.k = "list" /\ new_data.cols # <<>>) =>
              \A i \in 1..Len(new_data.cols[1]) : new_data.cols[1][i] = clamped

\* C16: when the status query of a StateAll fails because the command
\* channel is unreachable, the state reported afterwards is Fault, whatever
\* it was before.
C16_Claim ==
    (pc = "done" /\ last = Raised("StateAll", 0, "socket.error")) =>
        state = "Fault"

\* the specification with one more acquisition after the last of Spec
NextAgain ==
    \/ Next
    \/ \E ack1, ack2 \in BOOLEAN : StartAllCT_Again(ack1, ack2)
SpecAgain == Init /\ [][NextAgain]_vars

\* a ReadAll step whose read of a data line fails with a socket error
C17_ReadFails ==
    /\ pc = "idle"
    /\ last'.op = "ReadAll"
    /\ Branch(hw.captured, repetitions) = "data"
    /\ ~data_end_flag
    /\ reads' = 0

\* C17, for the buffer it names: a ReadAll whose read of a data line hits a
\* socket error while the data buffer is still empty returns normally and
\* leaves the data buffer and the end flag unchanged.
C17_Claim ==
    [][(C17_ReadFails /\ data_buffer = <<>>) =>
          /\ last'.outcome = "ok"
          /\ UNCHANGED <<data_buffer, data_end_flag>>]_vars

\* C18: ReadAll adds a line to the data buffer only when the header has
\* been parsed since the latest Load, and never adds a line of the stream's
\* header.
C18_Claim ==
    /\ data_buffer # <<>> => header_okay_flag
    /\ \A i \in 1..Len(data_buffer) : data_buffer[i].kind = "row"

\* C19: after a Load nothing of the previous acquisition is observable:
\* until a ReadAll of the new acquisition has run, ReadOne returns the
\* no-data result for every added axis (stated for the states in which an
\* earlier ReadAll has assigned the decoded data).
C19_Claim ==
    (hist.phase = "loaded" /\ new_data.k = "list") =>
        \A a \in Axes : attributes[a] # Absent => ReadOneResult(a) = NoDataResult(a)

\* C20: a zero-row ReadAll that finds the header unparsed sets the header flag
\* only when the fourth line it reads holds the marker; when the marker is
\* absent or the read fails with a socket error, the call raises nothing,
\* the flag stays false (so the next zero-row ReadAll parses again) and the
\* capture header is not filled from the lines read.
C20_Marker ==
    /\ sock_open
    /\ Len(wire) >= fixed_header_lines + Cardinality(hw.enabled) + 1
    /\ wire[fixed_header_lines].kind = "fields"
C20_Claim ==
    [][(/\ pc = "idle"
        /\ last'.op = "ReadAll"
        /\ Branch(hw.captured, repetitions) = "header"
        /\ ~header_okay_flag)
       => /\ header_okay_flag' => C20_Marker
          /\ ~C20_Marker => /\ last'.outcome = "ok"
                            /\ ~header_okay_flag'
                            /\ channels_order' \in {<<>>, channels_order}]_vars

\* the rows a ReadAll delivered: the decoded data without the timer column,
\* row by row
C21_Delivered(nd) ==
    IF nd.k = "list" /\ nd.cols # <<>>
    THEN [i \in 1..Len(nd.cols[1]) |->
             [j \in 1..(Len(nd.cols) - 1) |-> nd.cols[j + 1][i]]]
    ELSE <<>>
\* C21: under hardware synchronization with repetitions > 1, every ReadAll
\* poll (one that read a row, one that read nothing, one whose read timed
\* out) delivers exactly the buffered rows between the stream cursor before
\* and after the poll, so that the cursor advances by the number of rows
\* delivered, every row is delivered once, and the cursor never exceeds the
\* number of rows in the data buffer.  Stated for data buffers that hold
\* rows only, of two or more channels each.
C21_Claim ==
    [][(/\ pc = "idle"
        /\ last'.op = "ReadAll"
        /\ synchronization = "HW"
        /\ repetitions > 1
        /\ Len(hw.hdr) >= 2
        /\ \A i \in 1..Len(data_buffer') : data_buffer'[i].kind = "row")
       => /\ index <= index'
          /\ index' <= Len(data_buffer')
          /\ C21_Delivered(new_data') =
                 [i \in 1..(index' - index) |-> data_buffer'[index + i].vals]]_vars

\* C22: whenever a ReadAll that has parsed the header and buffered rows only
\* leaves decoded data, the data is a list of columns, one more than the
\* capture header has channels (the timer column first), and all columns
\* have the same number of rows.
C22_Claim ==
    (/\ pc = "done"
     /\ last.op = "ReadAll"
     /\ header_okay_flag
     /\ \A i \in 1..Len(data_buffer) : data_buffer[i].kind = "row"
     /\ new_data # NoData)
    => /\ new_data.k = "list"
       /\ Len(new_data.cols) = Len(channels_order) + 1
       /\ \A j \in 1..Len(new_data.cols) :
              Len(new_data.cols[j]) = Len(new_data.cols[1])

\* the stream after the step holds every line it held before: none was read
C23_NotRead ==
    /\ Len(wire') >= Len(wire)
    /\ SubSeq(wire', 1, Len(wire)) = wire
    /\ sock_open' = sock_open
\* C23: the step that sets the stream-end flag is a ReadAll that reads one
\* line and leaves the data buffer as it was; from then on the flag stays
\* set until a Load, and until that Load no ReadAll, ReadOne, StateAll,
\* AbortOne or StopOne reads from the stream or changes the data buffer,
\* whatever the captured-row count is.
C23_Step ==
    /\ (~data_end_flag /\ data_end_flag')
          => /\ last'.op = "ReadAll"
             /\ reads' = 1
             /\ data_buffer' = data_buffer
    /\ (data_end_flag /\ last'.op # "LoadOne")
          => /\ data_end_flag'
             /\ data_buffer' = data_buffer
             /\ C23_NotRead
C23_End == [][C23_Step]_vars
\* a ReadAll after the END line was read, with rows in the buffer
C23_Witness ==
    /\ pc = "done"
    /\ last.op = "ReadAll"
    /\ data_end_flag
    /\ reads = 0
    /\ data_buffer # <<>>

\* the specification with a caller that keeps polling ReadAll, an appliance
\* that captures whenever it can, and calls that end (StartAllCT included)
SpecPolling ==
    /\ FairSpec
    /\ WF_vars(Return)
    /\ SF_vars(\E arrives \in BOOLEAN : ReadAll(arrives))
    /\ SF_vars(Capture)

\* C24: once the appliance has captured the expected rows of a started
\* acquisition, a caller that keeps polling ReadAll (and does not abort,
\* stop or load) eventually has the disable-capture command sent and the
\* END line observed, with every captured row in the data buffer.
C24_Claim ==
    (hist.phase = "started" /\ hw.captured = repetitions)
    ~> \/ /\ data_end_flag
          /\ hist.disables >= 1
          /\ \A k \in 1..hw.captured :
                 RowLine(hw.arms, k, hw.hdr) \in Range(data_buffer)
       \/ hist.phase # "started"
       \/ hw.captured > repetitions

\* C25: the data stream is consumed by ReadAll alone, in one bounded read per
\* call: a ReadAll that finds zero captured rows does the header read only,
\* and only while the header is unparsed (at most the header's lines, taken
\* from the front of the stream, none of them into the data buffer, no new
\* rows); a ReadAll that finds rows within the expected count reads at most
\* one line; any other ReadAll, and every other step, reads nothing.
C25_Step ==
    IF pc = "idle" /\ last'.op = "ReadAll" THEN
        LET br == Branch(hw.captured, repetitions)
        IN  /\ br = "header" =>
                  /\ reads' <= fixed_header_lines + Cardinality(hw.enabled) + 1
                  /\ reads' <= Len(wire)
                  /\ wire' = SubSeq(wire, reads' + 1, Len(wire))
                  /\ data_buffer' = data_buffer
                  /\ new_data' = NoData
                  /\ header_okay_flag =>
                        reads' = 0 /\ UNCHANGED <<header_okay_flag, channels_order>>
            /\ br = "data" =>
                  /\ reads' <= 1
                  /\ Len(wire') >= Len(wire) - 1
                  /\ Len(data_buffer') <= Len(data_buffer) + 1
            /\ br = "none" => reads' = 0 /\ C23_NotRead
    ELSE reads' = 0 /\ C23_NotRead
C26_Count(q, c) == Cardinality({i \in 1..Len(q) : q[i] = c})
\* C26: a StartAllCT sends at most two arm commands and at most one disarm
\* command, and when the arm and the re-arm are both rejected it fails
\* without enabling the capture gate and without pulsing the trigger.
C26_Claim ==
    last.op = "StartAllCT" =>
        /\ C26_Count(sent, ARM) <= 2
        /\ C26_Count(sent, DISARM) <= 1
        /\ (start.rejected /\ ~start.busy) =>
              /\ ENABLE_ONE \notin Range(sent)
              /\ TRIG_ONE \notin Range(sent)
              /\ pc = "done" => last.outcome # "ok"

\* the specification with the acquisition mode of an axis set as well
ModeValues == Modes \cup {"Bogus"}
NextModes ==
    \/ Next
    \/ \E axis \in Axes, name \in {"AcquisitionMode"}, value \in ModeValues :
          SetExtraAttributePar(axis, name, value)
SpecModes == Init /\ [][NextModes]_vars

\* C27: a SetExtraAttributePar that raises leaves the attribute table
\* unchanged and sends no command; one that succeeds on an axis with a bound
\* channel sends the disable-capture command for the old name and then the
\* enable command for the new binding.
C27_Claim ==
    [][(pc = "idle" /\ last'.op = "SetExtraAttributePar")
       => LET old == attributes[last'.axis]
              new == attributes'[last'.axis]
          IN  /\ last'.outcome # "ok" =>
                    attributes' = attributes /\ sent' = <<>>
              /\ (last'.outcome = "ok" /\ old.ChannelName # NoChannel) =>
                    sent' = << Cmd(old.ChannelName, "CAPTURE", "No"),
                               Cmd(new.ChannelName, "CAPTURE", new.AcquisitionMode) >>]_vars

(***************************************************************************)
(* The trigger/gate controller (PandaBoxTriggerGateController.py).  Times  *)
(* are in milliseconds.  A pandabox.query() may raise (the connection is   *)
(* lost): the call then ends with the RuntimeError of handle_error, having *)
(* sent the commands before the failing one.                               *)
(***************************************************************************)
trigger_block == "PULSE1"     \* the controller property's default
wait_time == 0                \* the controller property's default
TriggerCounts == {1, 2}
IntTimes == {10, 20}

\* enableBlocks (lines 134-138)
enableBlocks(value) ==
    << Cmd(trigger_block, "ENABLE", value), Cmd(trigger_block, "TRIG", value) >>
\* configure_panda (lines 112-130)
configure_panda(trigger_count, total, int_time) ==
    << Cmd(trigger_block, "DELAY.UNITS", "s"),
       Cmd(trigger_block, "WIDTH.UNITS", "s"),
       Cmd(trigger_block, "STEP.UNITS", "s"),
       Cmd(trigger_block, "ENABLE.DELAY", "0"),
       Cmd(trigger_block, "TRIG.DELAY", "0"),
       Cmd(trigger_block, "PULSES", ToString(trigger_count)),
       Cmd(trigger_block, "WIDTH", ToString(int_time)),
       Cmd(trigger_block, "STEP", ToString(int_time + wait_time)) >>
\* the block configured before it is disabled
SynchConfigureFirst(trigger_count, total, int_time) ==
    configure_panda(trigger_count, total, int_time) \o enableBlocks("ZERO")
\* the commands of SynchOne (lines 99-108)
SynchCommands(trigger_count, total, int_time) ==
    enableBlocks("ZERO") \o configure_panda(trigger_count, total, int_time)

\* the block's registers after the commands cs
RECURSIVE BlockAfter(_, _)
BlockAfter(b, cs) ==
    IF cs = <<>> THEN b
    ELSE BlockAfter(IF Head(cs).blk = trigger_block /\ Head(cs).fld \in DOMAIN b
                    THEN [b EXCEPT ![Head(cs).fld] = Head(cs).val]
                    ELSE b,
                    Tail(cs))

\* a call that is to send cmds: n of them reach the appliance; the call
\* raises when a query fails before all are sent, or when the answer to the
\* last one is lost
TriggerCall(op, axis, cmds, n, lost) ==
    /\ pc = "idle"
    /\ n \in 0..Len(cmds)
    /\ lost => n = Len(cmds)
    /\ pc' = "done"
    /\ sent' = SubSeq(cmds, 1, n)
    /\ hw' = [hw EXCEPT !.block = BlockAfter(@, sent')]
    /\ last' = Raised(op, axis, IF n < Len(cmds) \/ lost THEN "RuntimeError" ELSE "ok")
    /\ reads' = 0
    /\ UNCHANGED <<ctrl, start, wire, hist>>

\* StartOne (lines 89-90), AbortOne (lines 94-95), SynchOne (lines 98-108)
TriggerGate_StartOne(axis, n, lost) ==
    /\ axis \in Axes
    /\ TriggerCall("TriggerGate.StartOne", axis, enableBlocks("ONE"), n, lost)
TriggerGate_AbortOne(axis, n, lost) ==
    /\ axis \in Axes
    /\ TriggerCall("TriggerGate.AbortOne", axis, enableBlocks("ZERO"), n, lost)
TriggerGate_SynchOne(axis, trigger_count, total, int_time, n, lost) ==
    /\ axis \in Axes
    /\ TriggerCall("TriggerGate.SynchOne", axis,
                   SynchCommands(trigger_count, total, int_time), n, lost)

NextTrigger ==
    \/ \E axis \in {1}, n \in 0..2, lost \in BOOLEAN :
          TriggerGate_StartOne(axis, n, lost)
    \/ \E axis \in {1}, n \in 0..2, lost \in BOOLEAN :
          TriggerGate_AbortOne(axis, n, lost)
    \/ \E axis \in {1}, trigger_count \in TriggerCounts, int_time \in IntTimes,
          n \in 0..10, lost \in BOOLEAN :
          TriggerGate_SynchOne(axis, trigger_count, 2 * int_time, int_time, n, lost)
    \/ Return
SpecTrigger == Init /\ [][NextTrigger]_vars

\* the last value commanded for ENABLE: e, or the latest in the commands q
RECURSIVE C28_Enable(_, _)
C28_Enable(e, q) ==
    IF q = <<>> THEN e
    ELSE C28_Enable(IF Head(q) \in {Cmd(trigger_block, "ENABLE", "ZERO"),
                                    Cmd(trigger_block, "ENABLE", "ONE")}
                    THEN Head(q).val ELSE e,
                    Tail(q))
\* a pulse-configuration command (units, delays, PULSES, WIDTH, STEP)
C28_Config(c) ==
    /\ c.blk = trigger_block
    /\ c.fld \in {"DELAY.UNITS", "WIDTH.UNITS", "STEP.UNITS", "ENABLE.DELAY",
                  "TRIG.DELAY", "PULSES", "WIDTH", "STEP"}
\* q begins as p does, as far as q goes
C28_Begins(q, p) == Len(q) <= Len(p) /\ q = SubSeq(p, 1, Len(q))
C28_Zero == << Cmd(trigger_block, "ENABLE", "ZERO"), Cmd(trigger_block, "TRIG", "ZERO") >>
C28_One == << Cmd(trigger_block, "ENABLE", "ONE"), Cmd(trigger_block, "TRIG", "ONE") >>
C28_Step ==
    (pc = "idle" /\ pc' = "done") =>
        /\ \A i \in 1..Len(sent') :
              C28_Config(sent'[i]) =>
                  C28_Enable(hw.block.ENABLE, SubSeq(sent', 1, i - 1)) = "ZERO"
        /\ last'.op = "TriggerGate.StartOne" =>
              /\ C28_Begins(sent', C28_One)
              /\ last'.outcome = "ok" => sent' = C28_One
        /\ last'.op = "TriggerGate.AbortOne" =>
              /\ C28_Begins(sent', C28_Zero)
              /\ last'.outcome = "ok" => sent' = C28_Zero
        /\ last'.op = "TriggerGate.SynchOne" =>
              /\ C28_Begins(SubSeq(sent', 1, Min(2, Len(sent'))), C28_Zero)
              /\ \A i \in 3..Len(sent') : C28_Config(sent'[i])
              /\ last'.outcome = "ok" => Len(sent') = 10
\* C28: in the trigger/gate controller, over any sequence of StartOne,
\* AbortOne and SynchOne calls (calls that fail part-way included), no
\* pulse-configuration command is sent while the last value commanded for
\* the trigger block's ENABLE is ONE: a SynchOne sends ENABLE=ZERO, then
\* TRIG=ZERO, then its configuration commands; a StartOne sends ENABLE=ONE
\* then TRIG=ONE; an AbortOne sends ENABLE=ZERO then TRIG=ZERO.
C28_Disabled == [][C28_Step]_vars
\* a SynchOne has sent all its commands and configured the block
C28_Witness ==
    /\ pc = "done"
    /\ last = Returned("TriggerGate.SynchOne", 1)
    /\ Len(sent) = 10
    /\ hw.block = [ENABLE |-> "ZERO", TRIG |-> "ZERO", PULSES |-> "2",
                   WIDTH |-> "20", STEP |-> "20"]

====
